---- MODULE Spec2Model ----
(***************************************************************************)
(* Model of ESP32_Alarm_SystemVwav.ino: four court timers, their alarm     *)
(* slots and LEDs, and the single WAV playback channel, driven by loop().  *)
(*                                                                         *)
(* One pass of loop() is the chain                                         *)
(*   client -> timers(0..3) -> alarms(0..3) -> audio -> delay -> client    *)
(* held in pc/idx.  The for-loops of updateTimers and updateAlarms advance *)
(* one court per step; iterations that leave the loop body at once (the    *)
(* continue of lines 943 and 975, the false test of line 979) change       *)
(* nothing and are stepped over, so idx always names a court whose body    *)
(* runs.  millis() is the variable now; it advances in the delay step      *)
(* only, so both loops of a pass read the same currentMillis.  A pass may  *)
(* take seconds: handlers block (delay(1000) at line 911, file uploads).   *)
(*                                                                         *)
(* unsigned long values are kept as integers in [-2^31, 2^31): a negative  *)
(* x stands for the bit pattern 2^32 + x.  The clock stays far below the   *)
(* wrap in the explored horizon.                                           *)
(*                                                                         *)
(* Left out: playerName, volume, globalVolume, WiFi and upload handlers    *)
(* (they do not influence timers, alarms, LEDs or which clip is live).     *)
(***************************************************************************)
EXTENDS Integers, FiniteSets, Sequences, TLC

NumCourts == 4
Courts == 0..(NumCourts - 1)

DefaultAlarmDuration == 12
DefaultWarningDuration == 8
DefaultWarningTime == 5

\* ----- bounds of the exploration -----
MaxNow == 100000
MaxRequests == 3

\* ----- inputs -----
ReqCourts == {0, 1}
StartDurations == {1}
WarningTimes == {0, DefaultWarningTime}
Advances == {10000, 60000}
AllClipEnvs == [courtClip : BOOLEAN, defaultClip : BOOLEAN]
ClipEnvs == {e \in AllClipEnvs : e.courtClip = e.defaultClip}

VARIABLES
  timers,        \* Timer timers[4]
  courtSettings, \* CourtSettings courtSettings[4]
  config,        \* Config config (alarmDuration, warningDuration)
  alarmStates,   \* AlarmState alarmStates[4]
  led,           \* level written to LED_PINS[i]
  audioPlaying,  \* bool audioPlaying
  wav,           \* the decoder objects begun and not yet deleted
  storage,       \* backend playAudio selects: "sd", "littlefs" or "none"
  now,           \* millis()
  pc, idx,       \* position in loop()
  reqs,          \* number of requests handled so far
  fired,         \* history per court since its last start: triggerAlarm calls,
                 \* the time of the last one, and whether a Stop was handled
  pausedElapsed, \* history: millis() - startTime when the court was paused
  last           \* history: what the last step did

vars == <<timers, courtSettings, config, alarmStates, led, audioPlaying, wav,
          storage, now, pc, idx, reqs, fired, pausedElapsed, last>>

\* ----- unsigned long arithmetic -----
\* (x as unsigned 32-bit) / 1000, with 2^32 = 4294967 * 1000 + 296
UDiv1000(x) ==
  IF x >= 0 THEN x \div 1000 ELSE 4294967 + ((296 + x) \div 1000)

\* unsigned comparison a >= b of two bit patterns
UGeqAlways(a, b) == TRUE

UGeq(a, b) ==
  IF (a >= 0) = (b >= 0) THEN a >= b ELSE a < 0

\* ----- the part of the state the helpers read and write -----
St ==
  [timers |-> timers, alarmStates |-> alarmStates, led |-> led,
   audioPlaying |-> audioPlaying, wav |-> wav, fired |-> fired]

Owners(w) == {o.court : o \in w}

\* ----- LEDs -----
activateLED(s, index) ==
  IF index >= 0 /\ index < 4
    THEN [s EXCEPT !.led = [@ EXCEPT ![index] = TRUE]]
    ELSE s

deactivateLEDAll(s, index) ==
  [s EXCEPT !.led = [i \in Courts |-> FALSE]]

deactivateLED(s, index) ==
  IF index >= 0 /\ index < 4
    THEN [s EXCEPT !.led = [@ EXCEPT ![index] = FALSE]]
    ELSE s

\* ----- audio channel -----
stopAudioFlagOnly(s) ==
  [s EXCEPT !.audioPlaying = FALSE]

stopAudio(s) ==
  [s EXCEPT !.wav = {}, !.audioPlaying = FALSE]

playAudioNoStop(s, fieldIndex, isWarning, env) ==
  LET clip(def) == [court |-> fieldIndex, warning |-> isWarning, default |-> def]
      begun(def) == [s EXCEPT !.wav = @ \cup {clip(def)}, !.audioPlaying = TRUE]
  IN  IF storage = "none" THEN s
      ELSE IF env.courtClip THEN begun(FALSE)
      ELSE IF env.defaultClip THEN begun(TRUE)
      ELSE s

playAudioDefaultFirst(s, fieldIndex, isWarning, env) ==
  LET s0 == stopAudio(s)
      clip(def) == [court |-> fieldIndex, warning |-> isWarning, default |-> def]
      begun(def) == [s0 EXCEPT !.wav = @ \cup {clip(def)}, !.audioPlaying = TRUE]
  IN  IF storage = "none" THEN s0
      ELSE IF env.defaultClip THEN begun(TRUE)
      ELSE IF env.courtClip THEN begun(FALSE)
      ELSE s0

\* env.courtClip / env.defaultClip: the file exists on the selected backend
\* and wav->begin() succeeds on it.  audioSystemReady is true from setup()
\* on (line 185), so the early return of line 1024 is never taken.
playAudio(s, fieldIndex, isWarning, env) ==
  LET s0 == stopAudio(s)
      clip(def) == [court |-> fieldIndex, warning |-> isWarning, default |-> def]
      begun(def) == [s0 EXCEPT !.wav = @ \cup {clip(def)}, !.audioPlaying = TRUE]
  IN  IF storage = "none" THEN s0
      ELSE IF env.courtClip THEN begun(FALSE)
      ELSE IF env.defaultClip THEN begun(TRUE)
      ELSE s0

\* ----- alarm coordinator -----
triggerAlarmIfIdle(s, index, durationSeconds, isWarning, env) ==
  LET s1 == [s EXCEPT !.alarmStates = [@ EXCEPT ![index] =
                 [active |-> TRUE, startTime |-> now,
                  duration |-> durationSeconds * 1000,
                  isWarning |-> isWarning,
                  looping |-> courtSettings[index].loopAlarm]]]
  IN  IF s.audioPlaying THEN activateLED(s1, index)
      ELSE playAudio(activateLED(s1, index), index, isWarning, env)

triggerAlarmNoLoop(s, index, durationSeconds, isWarning, env) ==
  LET s1 == [s EXCEPT !.alarmStates = [@ EXCEPT ![index] =
                 [active |-> TRUE, startTime |-> now,
                  duration |-> durationSeconds * 1000,
                  isWarning |-> isWarning,
                  looping |-> FALSE]]]
  IN  playAudio(activateLED(s1, index), index, isWarning, env)

triggerAlarmIfPlayed(s, index, durationSeconds, isWarning, env) ==
  LET s1 == playAudio(s, index, isWarning, env)
      s2 == [s1 EXCEPT !.alarmStates = [@ EXCEPT ![index] =
                 [active |-> TRUE, startTime |-> now,
                  duration |-> durationSeconds * 1000,
                  isWarning |-> isWarning,
                  looping |-> courtSettings[index].loopAlarm]]]
  IN  IF s1.audioPlaying THEN activateLED(s2, index) ELSE s1

triggerAlarm(s, index, durationSeconds, isWarning, env) ==
  LET s1 == [s EXCEPT !.alarmStates = [@ EXCEPT ![index] =
                 [active |-> TRUE, startTime |-> now,
                  duration |-> durationSeconds * 1000,
                  isWarning |-> isWarning,
                  looping |-> courtSettings[index].loopAlarm]]]
  IN  playAudio(activateLED(s1, index), index, isWarning, env)

Bump(f, i, k) ==
  [f EXCEPT ![i] = [@ EXCEPT ![k] = IF @ < 2 THEN @ + 1 ELSE @, !.at = now]]

\* the test of lines 953-954 without the latch
warnDueAtZero(remaining, lead) == remaining <= lead * 60

warnDue(remaining, lead) == remaining <= lead * 60 /\ remaining > 0

warnUnlatched(t) == t

warnLatched(t) == [t EXCEPT !.warningTriggered = TRUE]

expLatched(t) == [t EXCEPT !.alarmTriggered = TRUE, !.running = FALSE]

\* body of the for-loop of updateTimers for court i
timerTick(s, i, env) ==
  LET t == s.timers[i]
      elapsed == now - t.startTime
      q == UDiv1000(t.duration - elapsed)
      remaining == IF q < 0 THEN 0 ELSE q
      s1 == [s EXCEPT !.timers = [@ EXCEPT ![i] =
                [@ EXCEPT !.remainingTime = remaining,
                          !.totalPlayTime = UDiv1000(elapsed)]]]
      warn == /\ ~t.warningTriggered
              /\ warnDue(remaining, courtSettings[i].warningTime)
      s2 == IF warn
              THEN triggerAlarm(
                     [s1 EXCEPT !.timers = [@ EXCEPT ![i] = warnLatched(@)],
                                !.fired = Bump(@, i, "warn")],
                     i, config.warningDuration, TRUE, env)
              ELSE s1
      exp == ~s2.timers[i].alarmTriggered /\ remaining <= 0
      s3 == IF exp
              THEN triggerAlarm(
                     [s2 EXCEPT !.timers = [@ EXCEPT ![i] = expLatched(@)],
                                !.fired = Bump(@, i, "exp")],
                     i, config.alarmDuration, FALSE, env)
              ELSE s2
  IN  IF ~t.running \/ t.paused THEN s ELSE s3

\* what timerTick did, for the history variable
timerOp(s, i) ==
  LET t == s.timers[i]
      q == UDiv1000(t.duration - (now - t.startTime))
  IN  IF ~t.running \/ t.paused THEN "skip"
      ELSE IF ~t.warningTriggered /\ q <= courtSettings[i].warningTime * 60 /\ q > 0
             THEN "warning"
      ELSE IF ~t.alarmTriggered /\ q <= 0 THEN "expired"
      ELSE "tick"

\* the test of line 980
loopsOnSnapshot(a, set) == a.looping

loopsOnSetting(a, set) == set.loopAlarm

loopsOn(a, set) == a.looping /\ set.loopAlarm

\* body of the for-loop of updateAlarms for court i
alarmTick(s, i, env) ==
  LET a == s.alarmStates[i]
      elapsed == now - a.startTime
  IN  IF ~a.active THEN s
      ELSE IF ~UGeq(elapsed, a.duration) THEN s
      ELSE IF loopsOn(a, courtSettings[i])
        THEN playAudio([s EXCEPT !.alarmStates = [@ EXCEPT ![i] =
                            [@ EXCEPT !.startTime = now]]],
                       i, a.isWarning, env)
        ELSE stopAudio(deactivateLED(
               [s EXCEPT !.alarmStates = [@ EXCEPT ![i] =
                    [@ EXCEPT !.active = FALSE]]], i))

alarmOp(s, i) ==
  LET a == s.alarmStates[i]
  IN  IF ~a.active \/ ~UGeq(now - a.startTime, a.duration) THEN "idle"
      ELSE IF a.looping /\ courtSettings[i].loopAlarm THEN "loop"
      ELSE "deactivate"

\* write a helper's result back
Apply(s) ==
  /\ timers' = s.timers
  /\ alarmStates' = s.alarmStates
  /\ led' = s.led
  /\ audioPlaying' = s.audioPlaying
  /\ wav' = s.wav
  /\ fired' = s.fired

Did(op, c) ==
  last' = [op |-> op, court |-> c, was |-> Owners(wav)]

\* ----- position in loop(): the next loop body that runs -----
timerBody(s, i) == s.timers[i].running /\ ~s.timers[i].paused

alarmBody(s, i) ==
  /\ s.alarmStates[i].active
  /\ UGeq(now - s.alarmStates[i].startTime, s.alarmStates[i].duration)

Least(S) == CHOOSE j \in S : \A k \in S : j <= k

Resume(p, i, s) ==
  LET tw == {j \in i..(NumCourts - 1) : timerBody(s, j)}
      aw == {j \in (IF p = "timers" THEN 0 ELSE i)..(NumCourts - 1) : alarmBody(s, j)}
  IN  IF p = "timers" /\ tw # {} THEN [pc |-> "timers", idx |-> Least(tw)]
      ELSE IF aw # {} THEN [pc |-> "alarms", idx |-> Least(aw)]
      ELSE [pc |-> "audio", idx |-> 0]

GoTo(p, i) ==
  LET r == Resume(p, i, St')
  IN  pc' = r.pc /\ idx' = r.idx

\* ----- timer transitions of the request handlers -----
startedKeepLatches(t, duration) ==
  [t EXCEPT !.running = TRUE, !.paused = FALSE, !.startTime = now,
            !.duration = duration * 60 * 1000,
            !.remainingTime = duration * 60,
            !.sessionCount = @ + 1]

started(t, duration) ==
  [t EXCEPT !.running = TRUE, !.paused = FALSE, !.startTime = now,
            !.duration = duration * 60 * 1000,
            !.remainingTime = duration * 60,
            !.warningTriggered = FALSE, !.alarmTriggered = FALSE,
            !.sessionCount = @ + 1]

pausedAt(t) ==
  [t EXCEPT !.paused = TRUE, !.pauseTime = now]

resumedNoShift(t) ==
  [t EXCEPT !.paused = FALSE]

resumed(t) ==
  [t EXCEPT !.startTime = @ + (now - t.pauseTime), !.paused = FALSE]

stoppedKeepRemaining(t) ==
  [t EXCEPT !.running = FALSE, !.paused = FALSE]

stopped(t) ==
  [t EXCEPT !.running = FALSE, !.paused = FALSE, !.remainingTime = 0]

\* ----- initial state: end of setup() -----
Init ==
  /\ timers = [i \in Courts |->
       [running |-> FALSE, paused |-> FALSE, startTime |-> 0, pauseTime |-> 0,
        duration |-> 0, remainingTime |-> 0, warningTriggered |-> FALSE,
        alarmTriggered |-> FALSE, sessionCount |-> 0, totalPlayTime |-> 0]]
  /\ alarmStates = [i \in Courts |->
       [active |-> FALSE, startTime |-> 0, duration |-> 0,
        isWarning |-> FALSE, looping |-> FALSE]]
  /\ courtSettings = [i \in Courts |->
       [warningTime |-> DefaultWarningTime, loopAlarm |-> FALSE]]
  /\ config = [alarmDuration |-> DefaultAlarmDuration,
               warningDuration |-> DefaultWarningDuration]
  /\ led = [i \in Courts |-> FALSE]
  /\ audioPlaying = FALSE
  /\ wav = {}
  /\ storage = "sd"
  /\ now = 0
  /\ pc = "client"
  /\ idx = 0
  /\ reqs = 0
  /\ fired = [i \in Courts |-> [warn |-> 0, exp |-> 0, stop |-> FALSE, at |-> -1]]
  /\ pausedElapsed = [i \in Courts |-> 0]
  /\ last = [op |-> "init", court |-> 0, was |-> {}]

\* ----- server.handleClient(): at most one request per pass -----
Accept == reqs < MaxRequests /\ reqs' = reqs + 1

NoRequest ==
  /\ pc = "client"
  /\ Did("none", 0)
  /\ UNCHANGED <<timers, courtSettings, config, alarmStates, led, audioPlaying,
                 wav, storage, now, reqs, fired, pausedElapsed>>
  /\ GoTo("timers", 0)

\* the test of lines 530, 568, 605 and 639, negated
validCourtUpTo4(courtId) == courtId >= 0 /\ courtId <= 4

validCourt(courtId) == courtId >= 0 /\ courtId < 4

\* server.send(400, ...) and return
Reject(courtId) ==
  /\ Did("rejected", courtId)
  /\ UNCHANGED <<timers, courtSettings, config, alarmStates, led, audioPlaying,
                 wav, storage, now, reqs, fired, pausedElapsed>>

handleStart(courtId, duration) ==
  /\ pc = "client"
  /\ IF validCourt(courtId)
       THEN /\ Accept
            /\ timers' = [timers EXCEPT ![courtId] = started(@, duration)]
            /\ fired' = [fired EXCEPT ![courtId] =
                 [warn |-> 0, exp |-> 0, stop |-> FALSE, at |-> -1]]
            /\ Did("start", courtId)
            /\ UNCHANGED <<courtSettings, config, alarmStates, led,
                           audioPlaying, wav, storage, now, pausedElapsed>>
       ELSE Reject(courtId)
  /\ GoTo("timers", 0)

handlePause(courtId) ==
  /\ pc = "client"
  /\ IF validCourt(courtId)
       THEN /\ Accept
            /\ IF timers[courtId].running /\ ~timers[courtId].paused
                 THEN /\ timers' = [timers EXCEPT ![courtId] = pausedAt(@)]
                      /\ pausedElapsed' = [pausedElapsed EXCEPT ![courtId] =
                           now - timers[courtId].startTime]
                      /\ Did("pause", courtId)
                 ELSE IF timers[courtId].paused
                   THEN /\ timers' = [timers EXCEPT ![courtId] = resumed(@)]
                        /\ Did("resume", courtId)
                        /\ UNCHANGED pausedElapsed
                   ELSE /\ Did("toggle", courtId)
                        /\ UNCHANGED <<timers, pausedElapsed>>
            /\ UNCHANGED <<courtSettings, config, alarmStates, led,
                           audioPlaying, wav, storage, now, fired>>
       ELSE Reject(courtId)
  /\ GoTo("timers", 0)

handleStop(courtId) ==
  /\ pc = "client"
  /\ IF validCourt(courtId)
       THEN /\ Accept
            /\ Apply(stopAudio(deactivateLED(
                 [St EXCEPT !.timers = [@ EXCEPT ![courtId] = stopped(@)],
                            !.fired = [@ EXCEPT ![courtId] =
                                         [@ EXCEPT !.stop = TRUE]]],
                 courtId)))
            /\ Did("stop", courtId)
            /\ UNCHANGED <<courtSettings, config, storage, now, pausedElapsed>>
       ELSE Reject(courtId)
  /\ GoTo("timers", 0)

handleSettings(courtId, warningTime, loopAlarm) ==
  /\ pc = "client"
  /\ IF validCourt(courtId)
       THEN /\ Accept
            /\ courtSettings' = [courtSettings EXCEPT ![courtId] =
                 [warningTime |-> warningTime, loopAlarm |-> loopAlarm]]
            /\ Did("settings", courtId)
            /\ UNCHANGED <<timers, config, alarmStates, led, audioPlaying, wav,
                           storage, now, fired, pausedElapsed>>
       ELSE Reject(courtId)
  /\ GoTo("timers", 0)

\* the tests of lines 487 and 492, negated
validDurationsAlarmOnly(alarmDur, warnDur) ==
  alarmDur >= 1 /\ alarmDur <= 60

validDurations(alarmDur, warnDur) ==
  /\ alarmDur >= 1 /\ alarmDur <= 60
  /\ warnDur >= 1 /\ warnDur <= 30

handleSetDuration(alarmDur, warnDur) ==
  /\ pc = "client"
  /\ IF validDurations(alarmDur, warnDur)
       THEN /\ Accept
            /\ config' = [alarmDuration |-> alarmDur, warningDuration |-> warnDur]
            /\ Did("setDuration", 0)
            /\ UNCHANGED <<timers, courtSettings, alarmStates, led,
                           audioPlaying, wav, storage, now, fired,
                           pausedElapsed>>
       ELSE Reject(0)
  /\ GoTo("timers", 0)

\* ----- handleSerialCommand(): one line from the serial port, read after -----
\* ----- updateAudioPlayback() and before delay(10)                      -----
validSerial(kind, dur) ==
  IF kind = "alarm" THEN dur >= 1 /\ dur <= 60 ELSE dur >= 1 /\ dur <= 30

handleSerialCommand(kind, dur) ==
  /\ pc = "delay"
  /\ last.op \in {"audio", "ended"}
  /\ IF validSerial(kind, dur)
       THEN /\ Accept
            /\ config' = IF kind = "alarm"
                           THEN [config EXCEPT !.alarmDuration = dur]
                           ELSE [config EXCEPT !.warningDuration = dur]
            /\ Did("serial", 0)
            /\ UNCHANGED <<timers, courtSettings, alarmStates, led,
                           audioPlaying, wav, storage, now, fired,
                           pausedElapsed>>
       ELSE Reject(0)
  /\ UNCHANGED <<pc, idx>>

\* ----- updateTimers(): the loop body for court idx -----
updateTimers(env) ==
  /\ pc = "timers"
  /\ Apply(timerTick(St, idx, env))
  /\ Did(timerOp(St, idx), idx)
  /\ UNCHANGED <<courtSettings, config, storage, now, reqs, pausedElapsed>>
  /\ GoTo("timers", idx + 1)

\* ----- updateAlarms(): the loop body for court idx -----
updateAlarms(env) ==
  /\ pc = "alarms"
  /\ Apply(alarmTick(St, idx, env))
  /\ Did(alarmOp(St, idx), idx)
  /\ UNCHANGED <<courtSettings, config, storage, now, reqs, pausedElapsed>>
  /\ GoTo("alarms", idx + 1)

\* ----- updateAudioPlayback(): running says whether the decoder has data -----
updateAudioPlaybackDeactivates(running) ==
  /\ pc = "audio"
  /\ IF audioPlaying /\ wav # {} /\ ~running
       THEN /\ Apply(stopAudio(
                 [St EXCEPT !.alarmStates =
                    [c \in Courts |->
                       IF c \in Owners(wav)
                         THEN [alarmStates[c] EXCEPT !.active = FALSE]
                         ELSE alarmStates[c]]]))
            /\ Did("ended", 0)
       ELSE Apply(St) /\ Did("audio", 0)
  /\ pc' = "delay"
  /\ UNCHANGED <<courtSettings, config, storage, now, idx, reqs, pausedElapsed>>

updateAudioPlayback(running) ==
  /\ pc = "audio"
  /\ IF audioPlaying /\ wav # {} /\ ~running
       THEN Apply(stopAudio(St)) /\ Did("ended", 0)
       ELSE Apply(St) /\ Did("audio", 0)
  /\ pc' = "delay"
  /\ UNCHANGED <<courtSettings, config, storage, now, idx, reqs, pausedElapsed>>

\* ----- delay(10) and whatever time the pass and the next request take -----
Delay(d) ==
  /\ pc = "delay"
  /\ now + d <= MaxNow
  /\ now' = now + d
  /\ pc' = "client"
  /\ Did("delay", 0)
  /\ UNCHANGED <<timers, courtSettings, config, alarmStates, led, audioPlaying,
                 wav, storage, idx, reqs, fired, pausedElapsed>>

Next ==
  \/ NoRequest
  \/ \E c \in ReqCourts, d \in StartDurations : handleStart(c, d)
  \/ \E c \in ReqCourts : handlePause(c)
  \/ \E c \in ReqCourts : handleStop(c)
  \/ \E c \in ReqCourts, w \in WarningTimes, l \in BOOLEAN : handleSettings(c, w, l)
  \/ \E env \in ClipEnvs : updateTimers(env)
  \/ \E env \in ClipEnvs : updateAlarms(env)
  \/ \E running \in BOOLEAN : updateAudioPlayback(running)
  \/ \E d \in Advances : Delay(d)

Spec == Init /\ [][Next]_vars

\* loop() is called again and again by the Arduino runtime
FairSpec == Spec /\ WF_vars(Next)

\* ----- the same program with every input the handlers accept or reject, -----
\* ----- every storage backend and every clip outcome                     -----
ExtRequests == 2
ExtHorizon == 60000
AnyCourts == {-1, 0, 1, 4}
AnyDurations == {-1, 0, 1}
AlarmDurations == {0, 20, 61}
WarningDurations == {0, 20, 31}
SerialKinds == {"alarm", "warning"}
SerialDurations == {0, 20, 61}
Storages == {"sd", "littlefs", "none"}

InitExt ==
  \E st \in Storages :
    /\ timers = [i \in Courts |->
         [running |-> FALSE, paused |-> FALSE, startTime |-> 0, pauseTime |-> 0,
          duration |-> 0, remainingTime |-> 0, warningTriggered |-> FALSE,
          alarmTriggered |-> FALSE, sessionCount |-> 0, totalPlayTime |-> 0]]
    /\ alarmStates = [i \in Courts |->
         [active |-> FALSE, startTime |-> 0, duration |-> 0,
          isWarning |-> FALSE, looping |-> FALSE]]
    /\ courtSettings = [i \in Courts |->
         [warningTime |-> DefaultWarningTime, loopAlarm |-> FALSE]]
    /\ config = [alarmDuration |-> DefaultAlarmDuration,
                 warningDuration |-> DefaultWarningDuration]
    /\ led = [i \in Courts |-> FALSE]
    /\ audioPlaying = FALSE
    /\ wav = {}
    /\ storage = st
    /\ now = 0
    /\ pc = "client"
    /\ idx = 0
    /\ reqs = 0
    /\ fired = [i \in Courts |-> [warn |-> 0, exp |-> 0, stop |-> FALSE, at |-> -1]]
    /\ pausedElapsed = [i \in Courts |-> 0]
    /\ last = [op |-> "init", court |-> 0, was |-> {}]

NextExt ==
  \/ NoRequest
  \/ \E c \in AnyCourts, d \in AnyDurations :
       reqs < ExtRequests /\ handleStart(c, d)
  \/ \E c \in AnyCourts : reqs < ExtRequests /\ handlePause(c)
  \/ \E c \in AnyCourts : reqs < ExtRequests /\ handleStop(c)
  \/ \E c \in AnyCourts, w \in WarningTimes, l \in BOOLEAN :
       reqs < ExtRequests /\ handleSettings(c, w, l)
  \/ \E a \in AlarmDurations, w \in WarningDurations :
       reqs < ExtRequests /\ handleSetDuration(a, w)
  \/ \E k \in SerialKinds, d \in SerialDurations :
       reqs < ExtRequests /\ handleSerialCommand(k, d)
  \/ \E env \in AllClipEnvs : updateTimers(env)
  \/ \E env \in AllClipEnvs : updateAlarms(env)
  \/ \E running \in BOOLEAN : updateAudioPlayback(running)
  \/ \E d \in Advances : now + d <= ExtHorizon /\ Delay(d)

SpecExt == InitExt /\ [][NextExt]_vars

\* ----- vocabulary of the properties -----
\* the step runs triggerAlarm for court b (a latch of b is set by it)
Triggered(b) ==
  /\ pc = "timers" /\ idx = b
  /\ \/ ~timers[b].warningTriggered /\ timers'[b].warningTriggered
     \/ ~timers[b].alarmTriggered /\ timers'[b].alarmTriggered

Playing(c) == audioPlaying /\ c \in Owners(wav)

\* ----- C1 -----
\* C1 as stated: at most one clip is live; and whenever court b's alarm is
\* triggered while court a's clip is playing, a's audio stops, the channel
\* passes to b, and a's AlarmState stays active and a's LED stays on.
C1_Original ==
  /\ [](Cardinality(wav) <= 1)
  /\ [][\A a, b \in Courts :
         (a # b /\ Playing(a) /\ Triggered(b)) =>
           /\ Owners(wav') = {b} /\ audioPlaying'
           /\ alarmStates[a].active => alarmStates'[a].active
           /\ led[a] => led'[a]]_vars

\* C1 amended: the channel passes to b when b's clip opens; when neither b's
\* clip nor the default clip opens the channel is left idle.  Either way a's
\* audio stops and a's AlarmState and LED are left as they were.
C1_Preempt ==
  /\ [](Cardinality(wav) <= 1)
  /\ [][\A a, b \in Courts :
         (a # b /\ Playing(a) /\ Triggered(b)) =>
           /\ ~Playing(a)'
           /\ \/ Owners(wav') = {b} /\ audioPlaying'
              \/ wav' = {} /\ ~audioPlaying'
           /\ alarmStates'[a] = alarmStates[a]
           /\ led'[a] = led[a]]_vars

\* court 1 was triggered while court 0's clip was live and now owns the channel
C1_Witness ==
  /\ last.op \in {"warning", "expired"} /\ last.court = 1
  /\ last.was = {0}
  /\ Owners(wav) = {1} /\ audioPlaying
  /\ alarmStates[0].active /\ led[0]

\* the step is handleStop accepting Stop(c)
HandledStop(c) == pc = "client" /\ last'.op = "stop" /\ last'.court = c

\* the step is the updateAlarms body of court c taking its else branch
Deactivated(c) ==
  pc = "alarms" /\ idx = c /\ alarmStates[c].active /\ ~alarmStates'[c].active

\* the step is the updateTimers body of court c
Ticked(c) == pc = "timers" /\ idx = c

\* ----- C2 -----
\* C2: in every reachable state and for every court, the LED is on if and only
\* if AlarmState.active is true.
C2_LedIffActive ==
  \A c \in Courts : led[c] = alarmStates[c].active

\* ----- C3 -----
\* C3: right after an accepted Stop(c) issued while c's alarm is active and c
\* owns the channel, Timer[c] is idle (not running, not paused, remaining 0),
\* AlarmState[c] is inactive, LED c is off and the channel is idle.
C3_StopClearsAll ==
  [][\A c \in Courts :
       (HandledStop(c) /\ alarmStates[c].active /\ Playing(c)) =>
         /\ ~timers'[c].running /\ ~timers'[c].paused
         /\ timers'[c].remainingTime = 0
         /\ ~alarmStates'[c].active
         /\ ~led'[c]
         /\ ~audioPlaying' /\ wav' = {}]_vars

\* ----- C4 -----
\* C4: Stop(c) leaves the channel alone when it belongs to another court d:
\* d's clip is still playing after the stop.
C4_StopSparesOthers ==
  [][\A c, d \in Courts :
       (c # d /\ HandledStop(c) /\ Playing(d)) =>
         (Playing(d)' /\ wav' = wav)]_vars

\* ----- C5 -----
\* C5: when a non-looping alarm of court c deactivates in updateAlarms, the
\* channel is stopped only if c owns it; a clip of another court d keeps
\* playing.
C5_DeactivateSparesOthers ==
  [][\A c, d \in Courts :
       (c # d /\ Deactivated(c) /\ Playing(d)) =>
         (Playing(d)' /\ wav' = wav)]_vars

\* ----- C6 -----
\* C6: between two accepted Starts of a court the warning trigger and the
\* expiry trigger each happen at most once, and an accepted Start clears both
\* latches, so that each can fire again in the new run.
C6_OncePerRun ==
  /\ [](\A c \in Courts : fired[c].warn <= 1 /\ fired[c].exp <= 1)
  /\ [][\A c \in Courts :
         (pc = "client" /\ last'.op = "start" /\ last'.court = c) =>
           /\ ~timers'[c].warningTriggered /\ ~timers'[c].alarmTriggered
           /\ timers'[c].running]_vars

\* the warning of court 0 has just fired again, in its second run
C6_Witness ==
  /\ timers[0].sessionCount = 2
  /\ fired[0].warn = 1
  /\ timers[0].warningTriggered
  /\ last.op = "warning" /\ last.court = 0

\* ----- C7 -----
\* C7: a tick of a running, unpaused timer never raises remaining, whatever
\* the clock advance since the tick before; while the timer is paused the
\* ticks leave remaining unchanged.
C7_RemainingMonotone ==
  [][\A c \in Courts :
       /\ (Ticked(c) /\ timers[c].running /\ ~timers[c].paused) =>
            timers'[c].remainingTime <= timers[c].remainingTime
       /\ (timers[c].paused /\ pc \in {"timers", "alarms", "audio", "delay"}) =>
            timers'[c].remainingTime = timers[c].remainingTime]_vars

\* ----- C8 -----
\* C8: when a paused timer is resumed, after any clock interval, the elapsed
\* time now - startTime is again what it was at the moment of the pause.
C8_PauseResumeKeepsElapsed ==
  [][\A c \in Courts :
       (pc = "client" /\ last'.op = "resume" /\ last'.court = c) =>
         /\ now' - timers'[c].startTime = pausedElapsed[c]
         /\ timers'[c].running /\ ~timers'[c].paused]_vars

\* court 0 ran for a while, was paused, and has just been resumed after the
\* clock moved on
C8_Witness ==
  /\ last.op = "resume" /\ last.court = 0
  /\ pausedElapsed[0] > 0
  /\ now - timers[0].pauseTime > 0
  /\ now - timers[0].startTime = pausedElapsed[0]

\* ----- C9 -----
\* C9: in every reachable state and for every court, paused implies running,
\* and not running implies remaining = 0.
C9_TimerInvariant ==
  \A c \in Courts :
    /\ timers[c].paused => timers[c].running
    /\ ~timers[c].running => timers[c].remainingTime = 0

\* court 0 has just expired on its own while court 1 sits paused
C9_Witness ==
  /\ last.op = "expired" /\ last.court = 0
  /\ ~timers[0].running /\ timers[0].remainingTime = 0
  /\ timers[1].paused /\ timers[1].running

\* ----- C10 -----
\* C10: the first tick of a running, unpaused timer at which
\* now - startTime >= duration sets remaining to 0, raises the expiry alarm
\* and clears running, whatever the clock gap since the previous tick.
C10_ExpiresOnFirstLateTick ==
  [][\A c \in Courts :
       (/\ Ticked(c) /\ timers[c].running /\ ~timers[c].paused
        /\ UGeq(now - timers[c].startTime, timers[c].duration)) =>
         /\ timers'[c].remainingTime = 0
         /\ ~timers'[c].running
         /\ timers'[c].alarmTriggered
         /\ alarmStates'[c].active /\ ~alarmStates'[c].isWarning]_vars

\* ----- the same program on a finer clock: passes can be 900 ms apart, so -----
\* ----- that two courts started in different passes can expire together -----
FineHorizon == 60000
FineAdvances == {900, 59100}

\* each court is started once
NextFine ==
  \/ NoRequest
  \/ \E c \in ReqCourts, d \in StartDurations :
       timers[c].sessionCount = 0 /\ handleStart(c, d)
  \/ \E env \in ClipEnvs : updateTimers(env)
  \/ \E env \in ClipEnvs : updateAlarms(env)
  \/ \E running \in BOOLEAN : updateAudioPlayback(running)
  \/ \E d \in FineAdvances : now + d <= FineHorizon /\ Delay(d)

SpecFine == Init /\ [][NextFine]_vars

\* ----- C11 -----
\* C11: a Start, Pause/Resume, Stop or Settings request whose court index is
\* outside 0..3 is rejected, and every timer, court setting, alarm state, LED
\* and the audio channel is as it was before the request.
C11_BadCourtRejected ==
  [][(pc = "client" /\ last'.court \notin Courts)
       => /\ last'.op = "rejected"
          /\ UNCHANGED <<timers, courtSettings, alarmStates, led,
                         audioPlaying, wav>>]_vars

\* a request for court 4 or -1 was just rejected while a timer was running and
\* a clip was playing
C11_Witness ==
  /\ last.op = "rejected"
  /\ last.court \notin Courts
  /\ audioPlaying
  /\ \E c \in Courts : timers[c].running /\ led[c]


\* ----- C12 -----
\* C12: a Start request whose duration is zero or negative is rejected and
\* leaves the court's timer as it was: running, paused, startTime, duration,
\* remainingTime, both latches and sessionCount keep their values.
C12_BadDurationRejected ==
  [][\A c \in Courts : \A d \in AnyDurations :
       (d <= 0 /\ handleStart(c, d))
         => (last'.op = "rejected" /\ timers'[c] = timers[c])]_vars


\* ----- C13 -----
\* updateTimers has just finished its loop over the courts
TimersDone == pc \in {"alarms", "audio"} /\ last.op \in {"tick", "warning", "expired"}

\* the courts whose warning or expiry fired in this pass
TriggeredNow == {c \in Courts : fired[c].at = now}

Highest(S) == CHOOSE j \in S : \A k \in S : k <= j

\* C13 as stated: when several courts raise an alarm event on the same tick,
\* the channel is then owned by the highest-indexed of them, and each of them
\* has its AlarmState active and its LED on, the lower ones without audio.
C13_Original ==
  (TimersDone /\ Cardinality(TriggeredNow) >= 2)
    => /\ audioPlaying
       /\ Owners(wav) = {Highest(TriggeredNow)}
       /\ \A c \in TriggeredNow : alarmStates[c].active /\ led[c]

\* C13: courts are processed in increasing index order within a tick: when
\* several courts raise an alarm event on the same tick, then once
\* updateTimers has processed all courts the channel is owned by the
\* highest-indexed of them if its clip opened and is idle otherwise, and each
\* of them has its AlarmState active and its LED on, the lower ones without
\* audio.
C13_HighestOwnsIfPlayed ==
  (TimersDone /\ Cardinality(TriggeredNow) >= 2)
    => /\ \/ ~audioPlaying /\ wav = {}
          \/ audioPlaying /\ Owners(wav) = {Highest(TriggeredNow)}
       /\ \A c \in TriggeredNow :
            /\ alarmStates[c].active /\ alarmStates[c].startTime = now
            /\ led[c]
            /\ c # Highest(TriggeredNow) => ~Playing(c)

\* courts 0 and 1 have both expired in the pass that updateTimers just
\* finished, and the channel plays court 1's expiry clip
C13_Witness ==
  /\ TimersDone
  /\ TriggeredNow = {0, 1}
  /\ fired[0].exp = 1 /\ fired[1].exp = 1
  /\ ~timers[0].running /\ ~timers[1].running
  /\ ~alarmStates[0].isWarning /\ ~alarmStates[1].isWarning
  /\ audioPlaying /\ Owners(wav) = {1}
  /\ led[0] /\ led[1]


\* ----- C14 -----
Elapsed(c) ==
  UGeq(now - alarmStates[c].startTime, alarmStates[c].duration)

\* updateAlarms has finished its loop over the courts in this pass
AlarmsDone == pc \in {"audio", "delay"}

\* court c has an active alarm, is not set to loop, and the alarm's window
\* ends within the horizon
Pending(c) ==
  /\ alarmStates[c].active
  /\ ~courtSettings[c].loopAlarm
  /\ alarmStates[c].startTime + alarmStates[c].duration <= MaxNow

\* C14: while a court's loopAlarm is false, its active AlarmState is
\* deactivated at the first alarm tick at which now - startTime >= duration
\* and not before; in that step its LED turns off and the audio channel
\* becomes idle.  Hence, as the loop keeps running, no alarm stays pending
\* for ever: every non-looping active alarm whose window ends within the
\* horizon becomes inactive, unless the court is set to loop or a new trigger
\* moves the window past the horizon.
C14_NonLoopingDeactivates ==
  /\ [][\A c \in Courts :
          (alarmStates[c].active /\ ~alarmStates'[c].active)
            => /\ pc = "alarms" /\ idx = c
               /\ Elapsed(c)
               /\ ~led'[c]
               /\ ~audioPlaying' /\ wav' = {}]_vars
  /\ [][\A c \in Courts :
          (/\ pc = "alarms" /\ idx = c
           /\ alarmStates[c].active /\ Elapsed(c)
           /\ ~courtSettings[c].loopAlarm)
            => ~alarmStates'[c].active]_vars
  /\ [](AlarmsDone =>
          \A c \in Courts :
            (alarmStates[c].active /\ ~courtSettings[c].loopAlarm)
              => ~Elapsed(c))
  /\ \A c \in Courts : []<>~Pending(c)

\* court 0's non-looping alarm has just been deactivated at the first alarm
\* tick after its window elapsed, while its own clip was still playing
C14_Witness ==
  /\ last.op = "deactivate" /\ last.court = 0 /\ last.was = {0}
  /\ ~courtSettings[0].loopAlarm
  /\ ~alarmStates[0].active
  /\ UGeq(now - alarmStates[0].startTime, alarmStates[0].duration)
  /\ ~led[0]
  /\ ~audioPlaying /\ wav = {}


\* ----- C15 -----
WarningFired(c) == ~timers[c].warningTriggered /\ timers'[c].warningTriggered

ExpiredFired(c) == ~timers[c].alarmTriggered /\ timers'[c].alarmTriggered

\* C15: in a run started by Start, the warning of court c fires on the first
\* tick that computes 0 < remaining <= warningTime * 60 (the first tick after
\* Start when the lead covers the whole duration), and a warning clip of court
\* c is requested; the expiry never fires in the same tick as the warning, it
\* fires on the tick that computes remaining = 0, and that tick sets
\* running = false.
C15_WarningThenExpiry ==
  [][\A c \in Courts :
       (Ticked(c) /\ timers[c].running /\ ~timers[c].paused)
         => LET r == timers'[c].remainingTime
                lead == courtSettings[c].warningTime * 60
            IN  /\ WarningFired(c)
                     <=> (~timers[c].warningTriggered /\ 0 < r /\ r <= lead)
                /\ WarningFired(c)
                     => /\ alarmStates'[c].active /\ alarmStates'[c].isWarning
                        /\ alarmStates'[c].startTime = now
                        /\ led'[c]
                        /\ \A w \in wav' : w.court = c /\ w.warning
                        /\ timers'[c].running
                /\ ~(WarningFired(c) /\ ExpiredFired(c))
                /\ ExpiredFired(c) <=> (~timers[c].alarmTriggered /\ r = 0)
                /\ ExpiredFired(c)
                     => /\ ~timers'[c].running
                        /\ alarmStates'[c].active /\ ~alarmStates'[c].isWarning
                        /\ \A w \in wav' : w.court = c /\ ~w.warning]_vars

\* court 0, started for one minute with the five-minute lead, has expired on
\* a tick 60 s after Start; its warning had fired on an earlier tick
C15_Witness ==
  /\ last.op = "expired" /\ last.court = 0
  /\ fired[0].warn = 1 /\ fired[0].exp = 1
  /\ timers[0].warningTriggered /\ timers[0].alarmTriggered
  /\ ~timers[0].running
  /\ timers[0].remainingTime = 0
  /\ now = timers[0].startTime + timers[0].duration
  /\ alarmStates[0].active /\ ~alarmStates[0].isWarning


\* ----- C16 -----
\* C16: Stop is terminal for a court's alarm, looping or not: from Stop(c)
\* until the next Start(c), court c's AlarmState is not active, its LED is
\* not on, and no clip of court c plays.
C16_StopIsTerminal ==
  \A c \in Courts :
    fired[c].stop
      => /\ ~alarmStates[c].active
         /\ ~led[c]
         /\ ~Playing(c)


\* ----- C17 -----
\* C17: a playback attempt that fails when an alarm is triggered (no storage
\* backend, or neither the court's clip nor the default clip opens) is not
\* fatal: the court's AlarmState is active with its LED on, the channel is
\* idle with no owner, the other courts are untouched and the pass goes on
\* to the next court or the next phase.
C17_FailedPlaybackNonFatal ==
  [][\A c \in Courts :
       /\ (Triggered(c) /\ storage = "none") => c \notin Owners(wav')
       /\ (Triggered(c) /\ c \notin Owners(wav'))
            => /\ alarmStates'[c].active
               /\ alarmStates'[c].startTime = now
               /\ led'[c]
               /\ ~audioPlaying' /\ wav' = {}
               /\ \A d \in Courts \ {c} :
                    /\ timers'[d] = timers[d]
                    /\ alarmStates'[d] = alarmStates[d]
                    /\ led'[d] = led[d]
               /\ pc' \in {"timers", "alarms", "audio"}]_vars

\* court 0's alarm has just been triggered while court 1's clip was playing,
\* and no clip opened for court 0 although a storage backend is mounted
C17_Witness ==
  /\ last.op \in {"warning", "expired"} /\ last.court = 0 /\ last.was = {1}
  /\ storage # "none"
  /\ alarmStates[0].active /\ alarmStates[0].startTime = now
  /\ led[0]
  /\ ~audioPlaying /\ wav = {}


\* ----- C18 -----
\* C18: an accepted Start(c, d), whatever the timer's state before it, leaves
\* the timer running and not paused, with startTime = now, duration = d
\* minutes in milliseconds, remainingTime = the whole duration, both latches
\* cleared and sessionCount one higher; and no other operation changes
\* sessionCount.
C18_StartResets ==
  [][\A c \in Courts :
       /\ \A d \in StartDurations :
            handleStart(c, d)
              => /\ timers'[c].running /\ ~timers'[c].paused
                 /\ timers'[c].startTime = now
                 /\ timers'[c].duration = d * 60 * 1000
                 /\ timers'[c].remainingTime = d * 60
                 /\ ~timers'[c].warningTriggered
                 /\ ~timers'[c].alarmTriggered
                 /\ timers'[c].sessionCount = timers[c].sessionCount + 1
       /\ timers'[c].sessionCount # timers[c].sessionCount
            => /\ pc = "client"
               /\ last'.op = "start" /\ last'.court = c
               /\ timers'[c].sessionCount = timers[c].sessionCount + 1]_vars

\* court 0 has just been started a second time, after its first run had been
\* paused
C18_Witness ==
  /\ last.op = "start" /\ last.court = 0
  /\ timers[0].sessionCount = 2
  /\ pausedElapsed[0] > 0 /\ timers[0].pauseTime > 0
  /\ timers[0].running /\ ~timers[0].paused
  /\ timers[0].startTime = now
  /\ timers[0].remainingTime = 60
  /\ ~timers[0].warningTriggered /\ ~timers[0].alarmTriggered


\* ----- C19 -----
\* C19: each warning or expiry event of court c sets AlarmState[c] to active
\* with startTime = now, isWarning true for a warning and false for an
\* expiry, duration = the currently configured warning (resp. alarm) seconds
\* times 1000 and looping = courtSettings[c].loopAlarm at that moment,
\* whatever alarm was active on c before, and turns LED c on.
C19_TriggerSetsAlarmState ==
  [][\A c \in Courts :
       /\ WarningFired(c)
            => /\ alarmStates'[c] =
                    [active |-> TRUE, startTime |-> now,
                     duration |-> config.warningDuration * 1000,
                     isWarning |-> TRUE,
                     looping |-> courtSettings[c].loopAlarm]
               /\ led'[c]
       /\ ExpiredFired(c)
            => /\ alarmStates'[c] =
                    [active |-> TRUE, startTime |-> now,
                     duration |-> config.alarmDuration * 1000,
                     isWarning |-> FALSE,
                     looping |-> courtSettings[c].loopAlarm]
               /\ led'[c]]_vars

\* after both durations were set to 20 s, court 0's expiry has just
\* replaced its warning alarm, whose clip was still playing
C19_Witness ==
  /\ last.op = "expired" /\ last.court = 0 /\ last.was = {0}
  /\ fired[0].warn = 1 /\ fired[0].exp = 1
  /\ config = [alarmDuration |-> 20, warningDuration |-> 20]
  /\ alarmStates[0] = [active |-> TRUE, startTime |-> now, duration |-> 20000,
                       isWarning |-> FALSE, looping |-> FALSE]
  /\ led[0]


\* ----- C20 -----
\* C20: when the window of an active alarm has elapsed at an alarm tick and
\* both the alarm's looping snapshot and the court's current loopAlarm are
\* true, the alarm stays active with startTime = now and a clip of the same
\* kind is requested again for the court (any other owner loses the channel);
\* in every other case (loopAlarm switched off since the trigger, or switched
\* on only after it) the alarm is deactivated.  So no active alarm is left
\* with its window elapsed when updateAlarms is done.
C20_LoopNeedsSnapshotAndSetting ==
  /\ [][\A c \in Courts :
          (pc = "alarms" /\ idx = c /\ alarmStates[c].active /\ Elapsed(c))
            => IF alarmStates[c].looping /\ courtSettings[c].loopAlarm
                 THEN /\ alarmStates'[c] =
                           [alarmStates[c] EXCEPT !.startTime = now]
                      /\ \A w \in wav' :
                           w.court = c /\ w.warning = alarmStates[c].isWarning
                      /\ audioPlaying' = (wav' # {})
                      /\ led'[c] = led[c]
                 ELSE ~alarmStates'[c].active]_vars
  /\ [](AlarmsDone => \A c \in Courts : alarmStates[c].active => ~Elapsed(c))

\* court 0's looping alarm has just restarted its window and taken the
\* channel from court 1
C20_Witness ==
  /\ last.op = "loop" /\ last.court = 0 /\ last.was = {1}
  /\ alarmStates[0].active /\ alarmStates[0].looping
  /\ courtSettings[0].loopAlarm
  /\ alarmStates[0].startTime = now
  /\ audioPlaying /\ Owners(wav) = {0}


\* ----- C21 -----
\* the step restarts the window of court c's looping alarm
LoopRestarted(c) ==
  /\ pc = "alarms" /\ idx = c
  /\ alarmStates[c].active /\ Elapsed(c)
  /\ alarmStates[c].looping /\ courtSettings[c].loopAlarm

\* what a play request of court c for the given kind must leave on the
\* channel when the clips open as env says
Played(c, kind, env) ==
  IF storage # "none" /\ env.courtClip
    THEN {[court |-> c, warning |-> kind, default |-> FALSE]}
  ELSE IF storage # "none" /\ env.defaultClip
    THEN {[court |-> c, warning |-> kind, default |-> TRUE]}
  ELSE {}

\* C21: a play request of court c stops whatever is live, then plays the
\* court's own clip if it opens on the selected backend, else the default
\* clip of that kind if it opens, else leaves the channel idle; so a failed
\* play still ends the previous clip, and the channel has an owner after the
\* request only if the request succeeded, and then the owner is c.
C21_PlayStopsThenFallsBack ==
  [][\A c \in Courts : \A env \in AllClipEnvs :
       /\ (Triggered(c) /\ updateTimers(env))
            => /\ wav' = Played(c, alarmStates'[c].isWarning, env)
               /\ audioPlaying' = (wav' # {})
       /\ (LoopRestarted(c) /\ updateAlarms(env))
            => /\ wav' = Played(c, alarmStates[c].isWarning, env)
               /\ audioPlaying' = (wav' # {})]_vars

\* court 0's own warning clip did not open, so the default warning clip now
\* plays for court 0; court 1's clip, which was playing, has been stopped
C21_Witness ==
  /\ last.op = "warning" /\ last.court = 0 /\ last.was = {1}
  /\ audioPlaying
  /\ wav = {[court |-> 0, warning |-> TRUE, default |-> TRUE]}


\* ----- C22 -----
\* C22: when the audio tick finds the live clip exhausted or the decoder
\* failed, the channel becomes idle, while every AlarmState, LED and timer is
\* left as it was (the owner's alarm stays active with its LED on; only the
\* alarm tick ends it); and a playback starts only in a step that triggers an
\* alarm or restarts a looping one.
C22_EndedClipKeepsAlarm ==
  [][/\ \A running \in BOOLEAN :
          (pc = "audio" /\ updateAudioPlayback(running))
            => /\ UNCHANGED <<timers, alarmStates, led, courtSettings>>
               /\ (audioPlaying /\ ~running) => (wav' = {} /\ ~audioPlaying')
               /\ (audioPlaying /\ running) => UNCHANGED <<wav, audioPlaying>>
               /\ ~audioPlaying => UNCHANGED <<wav, audioPlaying>>
     /\ (wav' # {} /\ wav' # wav)
          => \E c \in Courts : Triggered(c) \/ LoopRestarted(c)]_vars

\* the audio tick has just found court 0's clip exhausted: the channel is
\* idle, court 0's alarm is still active and its LED still on
C22_Witness ==
  /\ last.op = "ended" /\ last.was = {0}
  /\ ~audioPlaying /\ wav = {}
  /\ alarmStates[0].active
  /\ ~Elapsed(0)
  /\ led[0]


\* ----- C23 -----
\* the Timer, CourtSettings, AlarmState or LED of court d changes in the step
CourtChanged(d) ==
  \/ timers'[d] # timers[d]
  \/ courtSettings'[d] # courtSettings[d]
  \/ alarmStates'[d] # alarmStates[d]
  \/ led'[d] # led[d]

\* C23: the courts are independent: a request addressed to court c and a
\* timer or alarm transition of court c leave the Timer, CourtSettings,
\* AlarmState and LED of every other court as they were; only the audio
\* channel is shared.
C23_CourtsIndependent ==
  [][\A d \in Courts :
       CourtChanged(d)
         => \/ pc = "client" /\ last'.court = d
            \/ pc \in {"timers", "alarms"} /\ idx = d]_vars

\* Stop(0) has just been handled while court 1's clip was playing: court 1's
\* timer still runs, its alarm is still active and its LED on, but the
\* channel is idle
C23_Witness ==
  /\ last.op = "stop" /\ last.court = 0 /\ last.was = {1}
  /\ timers[1].running
  /\ alarmStates[1].active /\ led[1]
  /\ ~audioPlaying /\ wav = {}


\* ----- C24 -----
\* the step handles an HTTP request or a serial command
RequestStep == reqs' # reqs \/ last'.op = "rejected"

\* C24 as stated: in each pass the timers, the alarms and the audio channel
\* are advanced first, and only then is a request serviced; so a request is
\* handled right after the audio phase of the same pass.
C24_Original ==
  [][RequestStep => last.op \in {"audio", "ended"}]_vars

\* C24: each pass first services at most one HTTP request, then advances the
\* timers, then the alarms, then the audio channel, in that order and in
\* increasing court order, then reads at most one serial command, and only
\* then does the clock move on; no request is handled between the timer,
\* alarm and audio phases, and an alarm triggered in the timer phase is left
\* alone by the alarm phase of the same pass.
C24_PassOrder ==
  [][/\ pc = "client" => pc' \in {"timers", "alarms", "audio"}
     /\ pc = "timers" => /\ pc' \in {"timers", "alarms", "audio"}
                         /\ pc' = "timers" => idx' > idx
     /\ pc = "alarms" => /\ pc' \in {"alarms", "audio"}
                         /\ pc' = "alarms" => idx' > idx
     /\ pc = "audio" => pc' = "delay"
     /\ pc = "delay" => \/ pc' = "client"
                        \/ pc' = "delay" /\ RequestStep
                                         /\ last.op \in {"audio", "ended"}
     /\ RequestStep => pc \in {"client", "delay"}
     /\ now' # now => (pc = "delay" /\ pc' = "client")
     /\ \A c \in Courts :
          (pc = "alarms" /\ fired[c].at = now)
            => alarmStates'[c] = alarmStates[c]]_vars

\* an HTTP Start was handled at the head of a pass and a serial command at
\* its tail, after the alarm phase left alone the alarm that the timer phase
\* of this pass had triggered
C24_Witness ==
  /\ pc = "delay" /\ last.op = "serial"
  /\ reqs = 2
  /\ \E c \in Courts :
       /\ timers[c].startTime = now /\ timers[c].sessionCount = 1
       /\ fired[c].at = now
       /\ alarmStates[c].active /\ alarmStates[c].startTime = now


\* ----- C25 -----
InRange(alarmDur, warnDur) == alarmDur \in 1..60 /\ warnDur \in 1..30

\* C25: a request to set the durations with the alarm duration outside 1..60
\* or the warning duration outside 1..30 is rejected and changes neither of
\* them (an in-range pair sets both; a serial command sets one, if in
\* range); so the configured durations stay within 1..60 and 1..30; and an
\* alarm that is already active keeps the duration it was triggered with.
C25_DurationsAllOrNothing ==
  /\ [](InRange(config.alarmDuration, config.warningDuration))
  /\ [][/\ \A a \in AlarmDurations, w \in WarningDurations :
             (pc = "client" /\ handleSetDuration(a, w))
               => IF InRange(a, w)
                    THEN config' = [alarmDuration |-> a, warningDuration |-> w]
                    ELSE config' = config /\ last'.op = "rejected"
        /\ \A k \in SerialKinds, d \in SerialDurations :
             (pc = "delay" /\ pc' = "delay" /\ handleSerialCommand(k, d))
               => IF k = "alarm"
                    THEN config' = [config EXCEPT !.alarmDuration =
                                      IF d \in 1..60 THEN d ELSE @]
                    ELSE config' = [config EXCEPT !.warningDuration =
                                      IF d \in 1..30 THEN d ELSE @]
        /\ config' # config => alarmStates' = alarmStates]_vars

\* after both durations were set to 20 s, an out-of-range duration request
\* has just been rejected at the head of a pass: both are still 20 s
C25_Witness ==
  /\ last.op = "rejected" /\ last.court = 0 /\ pc # "delay"
  /\ reqs = 1
  /\ config = [alarmDuration |-> 20, warningDuration |-> 20]


\* ----- C26 -----
\* C26: the play time the status query reports for a court is cumulative
\* across runs: no tick and no Start, PauseOrResume or Stop request ever
\* lowers it, and after a new Start it is not the new run's elapsed time.
C26_PlayTimeCumulative ==
  [][\A c \in Courts :
       timers'[c].totalPlayTime >= timers[c].totalPlayTime]_vars


\* ----- C27 -----
\* C27: no orphaned audio: whenever the channel is playing, the court whose
\* clip it plays has its AlarmState active; and every step that deactivates
\* an alarm or handles a Stop leaves the channel idle.
C27_NoOrphanedAudio ==
  /\ [](audioPlaying => \A c \in Owners(wav) : alarmStates[c].active)
  /\ [][\A c \in Courts :
          (Deactivated(c) \/ HandledStop(c))
            => (~audioPlaying' /\ wav' = {})]_vars

\* court c's alarm has just been deactivated while its own clip was playing,
\* and the channel is idle
C27_Witness ==
  /\ last.op = "deactivate" /\ last.court \in last.was
  /\ ~alarmStates[last.court].active
  /\ wav = {} /\ ~audioPlaying

==============================================================================




